---- MODULE Spec2Model ----
(***************************************************************************)
(* Narrative progression state machine of the "simulation reality" piece   *)
(* (NarrativeSystem) and its coupling to the frame loop (Application),     *)
(* the UI controller, the glitch system and the event bus.                 *)
(*                                                                         *)
(* Numbers.  consciousness and fulfillment are JavaScript numbers that     *)
(* only ever receive the constants 0.001, 0.0005, 0.05 and multiples of    *)
(* 0.1; they are kept here as exact integers in units of 0.0005, so        *)
(* 1.0 = 2000 (ONE).  Rounding of binary floating point is not modelled.   *)
(* timeElapsed, deltaTime and glitch lifetimes are kept in whole seconds.  *)
(***************************************************************************)
EXTENDS Integers, Sequences, FiniteSets, TLC

\* ------------------------------------------------------------------ bounds
MaxFrames == 2
MaxChoices == 2
MaxGlitches == 2
MaxDiscoveries == 22
MaxDelta == 1
MaxStack == 2
MaxClicks == 1
MaxIdleFrames == 2002
MaxEndingFrames == 110
MaxPoolCalls == 7

\* Number of uninterrupted frames that ran before the first state that is
\* explored (0: directly after construction).
StartFrames == {0, 659, 999, 1319}

\* --------------------------------------------------------------- constants
ONE == 2000
consciousnessSpeed == 2
fulfillmentSpeed == 1
awakeningThreshold == 660
transcendenceThreshold == 1320
glitchConsciousness == 100
\* lifetime of a glitch effect, in seconds
glitchDuration == 2

VOID == "void"
AWAKENING == "awakening"
TRANSCENDENCE == "transcendence"
Zones == {VOID, AWAKENING, TRANSCENDENCE}

NoEnding == "none"
Endings == {"dissolution", "acceptance", "transcendence", "rebellion"}

\* NarrativeSystem.setupChoices: the catalog, in catalog order.
availableChoices ==
  << [id |-> "accept_reality",    consciousness |-> -200, fulfillment |-> 400,
      ending |-> "acceptance"],
     [id |-> "reject_simulation", consciousness |-> 600,  fulfillment |-> -200,
      ending |-> "rebellion"],
     [id |-> "transcend",         consciousness |-> 600,  fulfillment |-> 600,
      ending |-> "transcendence"],
     [id |-> "dissolve",          consciousness |-> 200,  fulfillment |-> 200,
      ending |-> "dissolution"] >>

CatalogIds == {availableChoices[i].id : i \in 1..Len(availableChoices)}
UnknownId == "no_such_choice"

\* Array.prototype.find over the catalog: index of the first entry with the
\* id, 0 when there is none (undefined).
find(choiceId) ==
  IF \E i \in 1..Len(availableChoices) : availableChoices[i].id = choiceId
  THEN CHOOSE i \in 1..Len(availableChoices) :
         /\ availableChoices[i].id = choiceId
         /\ \A j \in 1..(i-1) : availableChoices[j].id # choiceId
  ELSE 0

Min(a, b) == IF a <= b THEN a ELSE b

\* ------------------------------------------------------------- event bus
\* Events whose emissions are observed.
EvZoneAwakening == "narrative:zone_change:awakening"
EvZoneTranscendence == "narrative:zone_change:transcendence"
EvZoneVoid == "narrative:zone_change:void"
EvRequestChoices == "narrative:request_choices"
EvChoiceMade == "narrative:choice_made"
EvEnding == "narrative:ending"
EvGlitch == "narrative:glitch_discovered"
EvMakeChoice == "narrative:make_choice"
ObservedEvents == {EvZoneAwakening, EvZoneTranscendence, EvZoneVoid,
                   EvRequestChoices, EvChoiceMade, EvEnding, EvGlitch,
                   EvMakeChoice}

ZoneEvent(zone) ==
  IF zone = AWAKENING THEN EvZoneAwakening
  ELSE IF zone = TRANSCENDENCE THEN EvZoneTranscendence
  ELSE EvZoneVoid

\* Channels that have listeners in the assembled application.
Channels == {"narrative:zone_change", "narrative:ending",
             "narrative:request_choices", "narrative:glitch_discovered",
             "narrative:make_choice", "mouse:click", "touch:end",
             "game:start", "game:pause", "game:resume", "game:toggle_pause"}

\* Handlers, named after the method that EventBus.on registers.
HZoneChange == "UIController.onZoneChange"
HEnding == "UIController.onEnding"
HTogglePause == "UIController.togglePause"
HRequestChoices == "Application.requestChoices"
HGlitchDiscovered == "Application.glitchDiscovered"
HMakeChoice == "Application.makeChoice"
HStart == "Application.start"
HPause == "Application.pause"
HResume == "Application.resume"
HInteraction == "GlitchSystem.onInteraction"

\* EventBus after EventBus.clear(): no channel has a listener.
NoListeners == [ch \in Channels |-> {}]

\* EventBus after the constructors of UIController, GlitchSystem and
\* Application have run.
ApplicationListeners ==
  [ch \in Channels |->
     CASE ch = "narrative:zone_change"       -> {HZoneChange}
       [] ch = "narrative:ending"            -> {HEnding}
       [] ch = "game:toggle_pause"           -> {HTogglePause}
       [] ch = "narrative:request_choices"   -> {HRequestChoices}
       [] ch = "narrative:glitch_discovered" -> {HGlitchDiscovered}
       [] ch = "narrative:make_choice"       -> {HMakeChoice}
       [] ch = "game:start"                  -> {HStart}
       [] ch = "game:pause"                  -> {HPause}
       [] ch = "game:resume"                 -> {HResume}
       [] ch = "mouse:click"                 -> {HInteraction}
       [] ch = "touch:end"                   -> {HInteraction}]

\* EventBus.emit reaches handler h of channel ch only if it is registered.
Registered(w, ch, h) == h \in w.listeners[ch]

\* One more observed emission of ev.
Emitted(w, ev) == [w EXCEPT !.emitted[ev] = @ + 1]

\* ------------------------------------------------------------ narrative
\* PlayerState as built by the NarrativeSystem constructor.
InitialState ==
  [consciousness |-> 0, fulfillment |-> 0, currentZone |-> VOID,
   choices |-> << >>, discoveredGlitches |-> 0, timeElapsed |-> 0]

\* Variant of getAvailableChoices whose AWAKENING slice starts at the head
\* of the catalog.
getAvailableChoices_fromHead(zone) ==
  IF zone = VOID THEN SubSeq(availableChoices, 1, 2)
  ELSE IF zone = AWAKENING THEN SubSeq(availableChoices, 1, 3)
  ELSE availableChoices

\* NarrativeSystem.getAvailableChoices: the slice of the catalog offered in
\* a zone (ids, in catalog order).
getAvailableChoices(zone) ==
  IF zone = VOID THEN SubSeq(availableChoices, 1, 2)
  ELSE IF zone = AWAKENING THEN SubSeq(availableChoices, 2, 3)
  ELSE availableChoices

\* UIController.showChoices: one button per choice, element made visible.
showChoices(w, choices) ==
  [w EXCEPT !.shownChoices = [i \in 1..Len(choices) |-> choices[i].id],
            !.choicesVisible = TRUE]

\* Application's handler of narrative:request_choices.
onRequestChoices(w) == showChoices(w, getAvailableChoices(w.currentZone))

\* EventBus.emit('narrative:request_choices').
emitRequestChoices(w) ==
  LET w1 == Emitted(w, EvRequestChoices)
  IN IF Registered(w1, "narrative:request_choices", HRequestChoices)
     THEN onRequestChoices(w1) ELSE w1

\* UIController.onZoneChange.
onZoneChange(w, zone) ==
  IF zone = AWAKENING \/ zone = TRANSCENDENCE
  THEN emitRequestChoices(w) ELSE w

\* EventBus.emit('narrative:zone_change', {zone}).
emitZoneChange(w, zone) ==
  LET w1 == Emitted(w, ZoneEvent(zone))
  IN IF Registered(w1, "narrative:zone_change", HZoneChange)
     THEN onZoneChange(w1, zone) ELSE w1

\* Variant of newZoneOf without the `currentZone === VOID` guard of the
\* AWAKENING branch.
newZoneOf_noVoidGuard(fulfillment, zone) ==
  IF fulfillment >= transcendenceThreshold /\ zone # TRANSCENDENCE
  THEN TRANSCENDENCE
  ELSE IF fulfillment >= awakeningThreshold
  THEN AWAKENING
  ELSE zone

\* Variant of newZoneOf that classifies fulfillment alone, in both
\* directions.
newZoneOf_symmetric(fulfillment, zone) ==
  IF fulfillment >= transcendenceThreshold THEN TRANSCENDENCE
  ELSE IF fulfillment >= awakeningThreshold THEN AWAKENING
  ELSE VOID

\* Variant of newZoneOf that enters TRANSCENDENCE from AWAKENING only and
\* passes through AWAKENING first when fulfillment has jumped.
newZoneOf_stepwise(fulfillment, zone) ==
  IF fulfillment >= transcendenceThreshold /\ zone = AWAKENING
  THEN TRANSCENDENCE
  ELSE IF fulfillment >= awakeningThreshold /\ zone = VOID
  THEN AWAKENING
  ELSE zone

\* Variant of newZoneOf whose thresholds are exclusive.
newZoneOf_strict(fulfillment, zone) ==
  IF fulfillment > transcendenceThreshold /\ zone # TRANSCENDENCE
  THEN TRANSCENDENCE
  ELSE IF fulfillment > awakeningThreshold /\ zone = VOID
  THEN AWAKENING
  ELSE zone

\* The zone that checkZoneTransition moves to (the current one if none).
newZoneOf(fulfillment, zone) ==
  IF fulfillment >= transcendenceThreshold /\ zone # TRANSCENDENCE
  THEN TRANSCENDENCE
  ELSE IF fulfillment >= awakeningThreshold /\ zone = VOID
  THEN AWAKENING
  ELSE zone

\* Variant of checkZoneTransition that emits before it stores the zone.
checkZoneTransition_emitFirst(w) ==
  LET newZone == newZoneOf(w.state.fulfillment, w.currentZone)
  IN IF newZone # w.currentZone
     THEN [emitZoneChange(w, newZone) EXCEPT !.currentZone = newZone,
                                             !.state.currentZone = newZone]
     ELSE w

\* NarrativeSystem.checkZoneTransition.
checkZoneTransition(w) ==
  LET newZone == newZoneOf(w.state.fulfillment, w.currentZone)
  IN IF newZone # w.currentZone
     THEN emitZoneChange([w EXCEPT !.currentZone = newZone,
                                   !.state.currentZone = newZone], newZone)
     ELSE w

\* UIController.onEnding.
onEnding(w) == [w EXCEPT !.gameState = "ended", !.choicesVisible = FALSE]

\* Variant of endingOf that reads the first recorded choice, not the last.
endingOf_firstChoice(state) ==
  LET n == Len(state.choices)
      i == IF n = 0 THEN 0 ELSE find(state.choices[1])
  IN IF i # 0 /\ availableChoices[i].ending # NoEnding
     THEN availableChoices[i].ending
     ELSE IF state.consciousness > 1600 /\ state.fulfillment < 1000
          THEN "rebellion"
     ELSE IF state.fulfillment > 1600 /\ state.consciousness < 1000
          THEN "acceptance"
     ELSE IF state.consciousness > 1600 /\ state.fulfillment > 1600
          THEN "transcendence"
     ELSE "dissolution"

\* Variant of endingOf that resolves the ending from the accumulators only.
endingOf_fallbackOnly(state) ==
  IF state.consciousness > 1600 /\ state.fulfillment < 1000
  THEN "rebellion"
  ELSE IF state.fulfillment > 1600 /\ state.consciousness < 1000
  THEN "acceptance"
  ELSE IF state.consciousness > 1600 /\ state.fulfillment > 1600
  THEN "transcendence"
  ELSE "dissolution"

\* The ending that triggerEnding resolves.
endingOf(state) ==
  LET n == Len(state.choices)
      i == IF n = 0 THEN 0 ELSE find(state.choices[n])
  IN IF i # 0 /\ availableChoices[i].ending # NoEnding
     THEN availableChoices[i].ending
     ELSE IF state.consciousness > 1600 /\ state.fulfillment < 1000
          THEN "rebellion"
     ELSE IF state.fulfillment > 1600 /\ state.consciousness < 1000
          THEN "acceptance"
     ELSE IF state.consciousness > 1600 /\ state.fulfillment > 1600
          THEN "transcendence"
     ELSE "dissolution"

\* NarrativeSystem.triggerEnding.
triggerEnding(w) ==
  LET w1 == Emitted([w EXCEPT !.lastEnding = endingOf(w.state)], EvEnding)
  IN IF Registered(w1, "narrative:ending", HEnding) THEN onEnding(w1) ELSE w1

\* Variant of accumulate without the upper clamp.
accumulate_noClamp(state, deltaTime) ==
  [state EXCEPT
     !.timeElapsed = @ + deltaTime,
     !.consciousness = @ + consciousnessSpeed,
     !.fulfillment = @ + fulfillmentSpeed]

\* The accumulation and clamp at the head of NarrativeSystem.update.
accumulate(state, deltaTime) ==
  [state EXCEPT
     !.timeElapsed = @ + deltaTime,
     !.consciousness = Min(ONE, @ + consciousnessSpeed),
     !.fulfillment = Min(ONE, @ + fulfillmentSpeed)]

\* Variant of endingCondition that tests fulfillment only.
endingCondition_fulfillmentOnly(state) ==
  state.fulfillment >= ONE

\* The ending condition tested at the end of NarrativeSystem.update.
endingCondition(state) ==
  state.fulfillment >= ONE \/ state.consciousness >= ONE

\* NarrativeSystem.update.
update(w, deltaTime) ==
  LET w1 == [w EXCEPT !.state = accumulate(w.state, deltaTime)]
      w2 == checkZoneTransition(w1)
  IN IF endingCondition(w2.state) THEN triggerEnding(w2) ELSE w2

\* The consequences makeChoice applies to the two accumulators.
applyConsequences(state, choice) ==
  [state EXCEPT !.consciousness = @ + choice.consciousness,
                !.fulfillment = @ + choice.fulfillment]

\* Variant of makeChoice that records the id before it looks it up.
makeChoice_recordFirst(w, choiceId) ==
  LET i == find(choiceId)
      w1 == [w EXCEPT !.state.choices = Append(@, choiceId)]
  IN IF i = 0 THEN w1
     ELSE Emitted([w1 EXCEPT !.state =
                               applyConsequences(@, availableChoices[i])],
                  EvChoiceMade)

\* NarrativeSystem.makeChoice.
makeChoice(w, choiceId) ==
  LET i == find(choiceId)
  IN IF i = 0 THEN w
     ELSE LET st == applyConsequences(w.state, availableChoices[i])
          IN Emitted([w EXCEPT !.state = [st EXCEPT !.choices =
                                                      Append(@, choiceId)]],
                     EvChoiceMade)

\* The mutation at the head of NarrativeSystem.onGlitchDiscovered.
discover(state) ==
  [state EXCEPT !.discoveredGlitches = @ + 1,
                !.consciousness = @ + glitchConsciousness]

\* NarrativeSystem.onGlitchDiscovered, called with room for `room` more
\* nested calls on the JavaScript stack.  Its emit of
\* narrative:glitch_discovered runs the Application's handler of that
\* channel, which calls onGlitchDiscovered again; the nesting ends only
\* when the stack is exhausted (RangeError, which unwinds every caller;
\* the mutations made so far stay).
RECURSIVE onGlitchDiscovered(_, _)
onGlitchDiscovered(w, room) ==
  LET w1 == Emitted([w EXCEPT !.state = discover(w.state)], EvGlitch)
  IN IF Registered(w1, "narrative:glitch_discovered", HGlitchDiscovered)
     THEN IF room = 0 THEN [w1 EXCEPT !.threw = TRUE]
          ELSE onGlitchDiscovered(w1, room - 1)
     ELSE w1

\* GlitchSystem.createGlitch: a new effect with elapsed = 0.
createGlitch(w) == [w EXCEPT !.glitches = Append(@, 0)]

\* GlitchSystem.update: every effect ages by deltaTime and is removed once
\* elapsed / duration >= 1.
glitchUpdate(effects, deltaTime) ==
  LET aged == [i \in 1..Len(effects) |-> effects[i] + deltaTime]
      Active(elapsed) == elapsed < glitchDuration
  IN SelectSeq(aged, Active)

\* GlitchSystem.onInteraction; hit: the raycast has an intersection.
onInteraction(w, hit, room) ==
  IF ~hit THEN w
  ELSE LET w1 == Emitted(createGlitch(w), EvGlitch)
       IN IF Registered(w1, "narrative:glitch_discovered", HGlitchDiscovered)
          THEN onGlitchDiscovered(w1, room)
          ELSE w1

\* ------------------------------------------------------------------ state
VARIABLES
  state,          \* NarrativeSystem.state (PlayerState)
  currentZone,    \* NarrativeSystem.currentZone
  emitted,        \* number of EventBus.emit calls per observed event
  lastEnding,     \* ending carried by the latest narrative:ending event
  listeners,      \* EventBus.listeners
  gameState,      \* UIController.gameState
  shownChoices,   \* ids of the buttons in the 'choices' element
  choicesVisible, \* the 'choices' element is not hidden
  threw,          \* the latest top-level callback ended by an uncaught error
  isRunning,      \* Application.isRunning
  isPaused,       \* Application.isPaused
  pendingFrames,  \* requestAnimationFrame callbacks not yet run
  inputAttached,  \* InteractionController's DOM listeners are attached
  debugEnabled,   \* Settings.debug.enabled (import.meta.env.DEV)
  glitches,       \* GlitchSystem.glitches: elapsed seconds of each effect
  debugPanel,     \* the panel of DebugGUI exists
  pausedTime,     \* seconds that paused frames have let pass since the
                  \* latest read (or start) of Application.clock
  held,           \* what a caller of getState() has kept: << >> or one object
  runningTime,    \* seconds passed while the application ran unpaused
  frameLog,       \* the calls the latest step made, if it ran animate
  frameCount,     \* NarrativeSystem.update calls since construction
  lastCall,       \* the latest top-level call or callback and its input
  budget,         \* frames and interactions still explored
  introVisible,   \* the 'intro' element, with the enter button, is shown
  bus,            \* EventBus.listeners of a bus used on its own
  subscriptions,  \* the unsubscribe functions that on() has returned
  busCall,        \* the latest call on that bus and what it invoked
  pool,           \* an ObjectPool: available, inUse, objects created
  poolCall,       \* the latest call on that pool and its object
  message         \* what the latest getMessage() returned

vars == << state, currentZone, emitted, lastEnding, listeners, gameState,
           shownChoices, choicesVisible, threw, isRunning, isPaused,
           pendingFrames, inputAttached, debugEnabled, glitches, debugPanel,
           pausedTime, held, runningTime, frameLog, frameCount, lastCall,
           budget, introVisible, bus, subscriptions, busCall, pool, poolCall,
           message >>

\* The utility objects of helpers.ts and the message, which the frames and
\* the input handlers of the experience leave alone.
utilities == << bus, subscriptions, busCall, pool, poolCall, message >>

\* A Map without entries.
EmptyMap == << >>

NoBusCall ==
  [op |-> "constructor", event |-> "", callback |-> "", data |-> 0,
   invoked |-> << >>, threw |-> FALSE]

\* An ObjectPool that holds nothing.
NoPool ==
  [available |-> << >>, inUse |-> << >>, created |-> 0, initialSize |-> 0]

NoPoolCall == [op |-> "constructor", object |-> 0, count |-> 0]

NoMessage == ""

\* No utility object has been used.
NoUtilities ==
  /\ bus = EmptyMap
  /\ subscriptions = {}
  /\ busCall = NoBusCall
  /\ pool = NoPool
  /\ poolCall = NoPoolCall
  /\ message = NoMessage

\* The part of the state that the synchronous handlers read and write.
World ==
  [state |-> state, currentZone |-> currentZone, emitted |-> emitted,
   lastEnding |-> lastEnding, listeners |-> listeners,
   gameState |-> gameState, shownChoices |-> shownChoices,
   choicesVisible |-> choicesVisible, threw |-> threw,
   glitches |-> glitches]

Commit(w) ==
  /\ state' = w.state
  /\ currentZone' = w.currentZone
  /\ emitted' = w.emitted
  /\ lastEnding' = w.lastEnding
  /\ listeners' = w.listeners
  /\ gameState' = w.gameState
  /\ shownChoices' = w.shownChoices
  /\ choicesVisible' = w.choicesVisible
  /\ threw' = w.threw
  /\ glitches' = w.glitches

\* A top-level callback starts with no error pending.
Enter(w) == [w EXCEPT !.threw = FALSE]

\* World after the constructors, with the given bus registrations.
Constructed(ls) ==
  [state |-> InitialState, currentZone |-> VOID,
   emitted |-> [ev \in ObservedEvents |-> 0], lastEnding |-> NoEnding,
   listeners |-> ls, gameState |-> "loading", shownChoices |-> << >>,
   choicesVisible |-> FALSE, threw |-> FALSE, glitches |-> << >>]

\* n consecutive calls of NarrativeSystem.update(1).
RECURSIVE updates(_, _)
updates(w, n) ==
  IF n = 0 THEN w
  ELSE IF n = 1 THEN update(w, 1)
  ELSE LET half == updates(w, n \div 2)
       IN \* the comparison makes TLC evaluate half before it goes on
          IF half = half THEN updates(half, n - (n \div 2)) ELSE w

Call(op, arg) == [op |-> op, arg |-> arg]
NoCall == Call("constructor", "")

FullBudget == [frames |-> MaxFrames, clicks |-> MaxClicks]

\* The variables of World have the values of w.
Initially(w) ==
  /\ state = w.state
  /\ currentZone = w.currentZone
  /\ emitted = w.emitted
  /\ lastEnding = w.lastEnding
  /\ listeners = w.listeners
  /\ gameState = w.gameState
  /\ shownChoices = w.shownChoices
  /\ choicesVisible = w.choicesVisible
  /\ threw = w.threw
  /\ glitches = w.glitches

\* ------------------------------------------------- NarrativeSystem alone
\* The narrative system driven directly on a cleared bus, as the unit
\* tests drive it (EventBus.clear(); new NarrativeSystem()), after k
\* calls of update(1).
InitUnit ==
  \E k \in StartFrames :
    /\ Initially(updates(Constructed(NoListeners), k))
    /\ frameCount = k
    /\ lastCall = (IF k = 0 THEN NoCall ELSE Call("update", ""))
    /\ isRunning = FALSE
    /\ isPaused = FALSE
    /\ pendingFrames = 0
    /\ inputAttached = FALSE
    /\ debugEnabled = FALSE
    /\ debugPanel = FALSE
    /\ pausedTime = 0
    /\ held = << >>
    /\ runningTime = 0
    /\ frameLog = << >>
    /\ budget = FullBudget
    /\ introVisible = FALSE
    /\ NoUtilities

AppUnchanged ==
  UNCHANGED << isRunning, isPaused, pendingFrames, inputAttached,
               debugEnabled, debugPanel, pausedTime, held, runningTime,
               frameLog, introVisible, utilities >>

\* narrative.update(deltaTime)
Update(deltaTime) ==
  /\ lastCall' = Call("update", "")
  /\ budget.frames > 0
  /\ Commit(update(Enter(World), deltaTime))
  /\ frameCount' = frameCount + 1
  /\ budget' = [budget EXCEPT !.frames = @ - 1]
  /\ AppUnchanged

\* narrative.makeChoice(choiceId)
MakeChoice(choiceId) ==
  /\ lastCall' = Call("makeChoice", choiceId)
  /\ Len(state.choices) < MaxChoices
  /\ Commit(makeChoice(Enter(World), choiceId))
  /\ UNCHANGED << frameCount, budget >>
  /\ AppUnchanged

\* narrative.onGlitchDiscovered(), explored up to `limit` discoveries
OnGlitchDiscovered(limit) ==
  /\ lastCall' = Call("onGlitchDiscovered", "")
  /\ state.discoveredGlitches < limit
  /\ \E room \in 1..MaxStack : Commit(onGlitchDiscovered(Enter(World), room))
  /\ UNCHANGED << frameCount, budget >>
  /\ AppUnchanged

NextUnit ==
  \/ \E deltaTime \in 0..MaxDelta : Update(deltaTime)
  \/ \E choiceId \in CatalogIds \cup {UnknownId} : MakeChoice(choiceId)
  \/ OnGlitchDiscovered(MaxGlitches)

SpecUnit == InitUnit /\ [][NextUnit]_vars

\* Frames and glitch discoveries only (no choice), with many discoveries.
NextDiscovery ==
  \/ \E deltaTime \in 0..MaxDelta : Update(deltaTime)
  \/ OnGlitchDiscovered(MaxDiscoveries)

SpecDiscovery == InitUnit /\ [][NextDiscovery]_vars

\* Frames only, from the freshly constructed system, past the point where
\* both accumulators have reached 1.
InitIdle ==
  /\ Initially(Constructed(NoListeners))
  /\ frameCount = 0
  /\ lastCall = NoCall
  /\ isRunning = FALSE
  /\ isPaused = FALSE
  /\ pendingFrames = 0
  /\ inputAttached = FALSE
  /\ debugEnabled = FALSE
  /\ debugPanel = FALSE
  /\ pausedTime = 0
  /\ held = << >>
  /\ runningTime = 0
  /\ frameLog = << >>
  /\ budget = FullBudget
  /\ introVisible = FALSE
  /\ NoUtilities

\* narrative.update(1), as the loops of the unit tests call it.
IdleUpdate ==
  /\ lastCall' = Call("update", "")
  /\ frameCount < MaxIdleFrames
  /\ Commit(update(Enter(World), 1))
  /\ frameCount' = frameCount + 1
  /\ UNCHANGED budget
  /\ AppUnchanged

NextIdle == IdleUpdate

SpecIdle == InitIdle /\ [][NextIdle]_vars

\* The last frames before the ending: 999 calls of update(1) have brought
\* consciousness to 0.999, and up to MaxEndingFrames calls follow.
InitEndings ==
  /\ Initially(updates(Constructed(NoListeners), 999))
  /\ frameCount = 999
  /\ lastCall = Call("update", "")
  /\ isRunning = FALSE
  /\ isPaused = FALSE
  /\ pendingFrames = 0
  /\ inputAttached = FALSE
  /\ debugEnabled = FALSE
  /\ debugPanel = FALSE
  /\ pausedTime = 0
  /\ held = << >>
  /\ runningTime = 0
  /\ frameLog = << >>
  /\ budget = FullBudget
  /\ introVisible = FALSE
  /\ NoUtilities

\* narrative.update(1) on one of the frames that follow.
EndingUpdate ==
  /\ lastCall' = Call("update", "")
  /\ frameCount < 999 + MaxEndingFrames
  /\ Commit(update(Enter(World), 1))
  /\ frameCount' = frameCount + 1
  /\ UNCHANGED budget
  /\ AppUnchanged

\* The frames at which the one choice of a playthrough is made: the last
\* one before the first ending event and the one that emitted it.
ChoiceFrames == {999, 1000}

\* narrative.makeChoice(choiceId) as the only choice of a playthrough.
OnlyChoice(choiceId) ==
  /\ lastCall' = Call("makeChoice", choiceId)
  /\ state.choices = << >>
  /\ frameCount \in ChoiceFrames
  /\ Commit(makeChoice(Enter(World), choiceId))
  /\ UNCHANGED << frameCount, budget >>
  /\ AppUnchanged

NextEndings ==
  \/ EndingUpdate
  \/ \E choiceId \in CatalogIds : OnlyChoice(choiceId)

\* A playthrough whose frames keep coming (the animation loop calls update
\* on every frame) while the player makes at most one choice.
SpecEndings ==
  InitEndings /\ [][NextEndings]_vars /\ WF_vars(EndingUpdate)

\* ------------------------------------------- what leaves NarrativeSystem
\* The choices array of NarrativeSystem.state, as a reference.
ChoicesRef == "NarrativeSystem.state.choices"

\* NarrativeSystem.getState: a new object that holds the value of each
\* property of this.state; for choices that value is the array itself.
getState(st) == [st EXCEPT !.choices = ChoicesRef]

\* What the holder of an object made by getState reads from it while the
\* narrative system's state is st.
Read(obj, st) == [obj EXCEPT !.choices = st.choices]

\* What a receiver that kept the data of the latest narrative:ending event
\* reads from its state field: triggerEnding passes this.state itself.
endingEventState(w) ==
  IF w.emitted[EvEnding] = 0 THEN << >> ELSE << w.state >>

\* const state = narrative.getState(), kept by the caller (as the unit
\* tests do).
GetState ==
  /\ lastCall' = Call("getState", "")
  /\ held = << >>
  /\ held' = << getState(state) >>
  /\ Commit(World)
  /\ UNCHANGED << isRunning, isPaused, pendingFrames, inputAttached,
                  debugEnabled, debugPanel, pausedTime, runningTime, frameLog,
                  frameCount, budget, introVisible, utilities >>

NextSnapshot ==
  \/ GetState
  \/ \E deltaTime \in 0..MaxDelta : Update(deltaTime)
  \/ \E choiceId \in CatalogIds : MakeChoice(choiceId)

SpecSnapshot == InitUnit /\ [][NextSnapshot]_vars

\* ------------------------------------------------ assembled application
\* Application.update: the narrative system, then the visual systems.  Of
\* the visual systems only the glitch effects are kept as state; the orb
\* sound played at random is left out.
applicationUpdate(w, deltaTime) ==
  LET w1 == update(w, deltaTime)
  IN [w1 EXCEPT !.glitches = glitchUpdate(@, deltaTime)]

\* Variant of animatePath that does not look at isPaused.
animatePath_ignoresPause(running, paused) ==
  IF ~running THEN "stopped" ELSE "running"

\* The branch that Application.animate takes.
animatePath(running, paused) ==
  IF ~running THEN "stopped" ELSE IF paused THEN "paused" ELSE "running"

Step(call, args) == [call |-> call, args |-> args]

\* Variant of frameCalls whose running branch updates the grid before the
\* narrative system.
frameCalls_gridFirst(path, after, deltaTime, debug) ==
  IF path = "stopped" THEN << >>
  ELSE IF path = "paused"
  THEN << Step("requestAnimationFrame", << >>),
          Step("sceneManager.render", << >>) >>
  ELSE << Step("requestAnimationFrame", << >>),
          Step("clock.getDelta", << >>),
          Step("clock.getElapsedTime", << >>),
          Step("gridSystem.update",
               << deltaTime, after.consciousness, after.fulfillment >>),
          Step("narrativeSystem.update", << deltaTime >>),
          Step("narrativeSystem.getState", << >>),
          Step("orbSystem.update", << deltaTime, after.fulfillment >>),
          Step("particleSystem.update", << deltaTime >>),
          Step("interactionController.update", << >>),
          Step("glitchSystem.update", << deltaTime >>),
          Step("uiController.updateProgress",
               << after.consciousness, after.fulfillment >>),
          Step("uiController.updateMessage", << >>),
          Step("sceneManager.render", << >>) >>
       \o (IF debug
           THEN << Step("debugGUI.update", << >>),
                   Step("debugGUI.updatePoolStats", << >>) >>
           ELSE << >>)

\* The calls that Application.animate makes on a branch, in order; after
\* is the PlayerState that getState returns in this frame.
frameCalls(path, after, deltaTime, debug) ==
  IF path = "stopped" THEN << >>
  ELSE IF path = "paused"
  THEN << Step("requestAnimationFrame", << >>),
          Step("sceneManager.render", << >>) >>
  ELSE << Step("requestAnimationFrame", << >>),
          Step("clock.getDelta", << >>),
          Step("clock.getElapsedTime", << >>),
          Step("narrativeSystem.update", << deltaTime >>),
          Step("narrativeSystem.getState", << >>),
          Step("gridSystem.update",
               << deltaTime, after.consciousness, after.fulfillment >>),
          Step("orbSystem.update", << deltaTime, after.fulfillment >>),
          Step("particleSystem.update", << deltaTime >>),
          Step("interactionController.update", << >>),
          Step("glitchSystem.update", << deltaTime >>),
          Step("uiController.updateProgress",
               << after.consciousness, after.fulfillment >>),
          Step("uiController.updateMessage", << >>),
          Step("sceneManager.render", << >>) >>
       \o (IF debug
           THEN << Step("debugGUI.update", << >>),
                   Step("debugGUI.updatePoolStats", << >>) >>
           ELSE << >>)

\* UIController.startExperience up to its emit of game:start.
startExperience(w) == [w EXCEPT !.gameState = "playing"]

\* Application after construction, or after the enter button was pressed
\* and k frames ran without any user input (the first one inside start(),
\* where the clock has just been started).
InitApp ==
  \E k \in StartFrames, dbg \in BOOLEAN :
    /\ Initially(IF k = 0 THEN Constructed(ApplicationListeners)
                 ELSE updates(update(startExperience(
                                Constructed(ApplicationListeners)), 0), k - 1))
    /\ frameLog = (IF k = 0 THEN << >>
                   ELSE frameCalls("running", state,
                                   IF k = 1 THEN 0 ELSE 1, dbg))
    /\ pausedTime = 0
    /\ held = << >>
    /\ runningTime = state.timeElapsed
    /\ debugPanel = dbg
    /\ frameCount = k
    /\ lastCall = (IF k = 0 THEN NoCall ELSE Call("animate", ""))
    /\ isRunning = (k > 0)
    /\ isPaused = FALSE
    /\ pendingFrames = (IF k > 0 THEN 1 ELSE 0)
    /\ inputAttached = TRUE
    /\ debugEnabled = dbg
    /\ budget = FullBudget
    /\ introVisible = (k = 0)
    /\ NoUtilities

\* The click also reaches InteractionController.onClick on window, which
\* emits mouse:click; GlitchSystem.onInteraction raycasts into the scene.
windowClick(w, hit, room) ==
  IF inputAttached /\ Registered(w, "mouse:click", HInteraction)
  THEN onInteraction(w, hit, room) ELSE w

\* A hit is explored while the interaction budget lasts.
HitAllowed(hit) == hit => budget.clicks > 0

SpendClick(hit) ==
  budget' = [budget EXCEPT !.clicks = IF hit THEN @ - 1 ELSE @]

\* Variant of startProceeds without the isRunning guard.
startProceeds_always(running) == TRUE

\* Application.start goes past its guard `if (this.isRunning) return`.
startProceeds(running) == ~running

\* Click on the enter button: UIController.startExperience, then
\* Application.start with its first animate() call, then the window click.
\* The button can be clicked while the 'intro' element is shown, which it
\* still is for 500 ms after the first click.
StartExperience(hit, room) ==
  /\ lastCall' = Call("startExperience", "")
  /\ introVisible
  /\ HitAllowed(hit)
  /\ LET w0 == startExperience(Enter(World))
         starts == /\ Registered(w0, "game:start", HStart)
                   /\ startProceeds(isRunning)
         w1 == IF starts /\ ~isPaused THEN applicationUpdate(w0, 0) ELSE w0
     IN /\ Commit(windowClick(w1, hit, room))
        /\ frameLog' = IF starts
                       THEN frameCalls(animatePath(TRUE, isPaused), w1.state,
                                       0, debugEnabled)
                       ELSE << >>
        /\ pausedTime' = IF starts THEN 0 ELSE pausedTime
        /\ isRunning' = (isRunning \/ starts)
        /\ pendingFrames' = IF starts THEN pendingFrames + 1 ELSE pendingFrames
        /\ frameCount' = IF starts /\ ~isPaused THEN frameCount + 1
                         ELSE frameCount
  /\ SpendClick(hit)
  /\ UNCHANGED << isPaused, inputAttached, debugEnabled, held, debugPanel,
                  runningTime, introVisible, utilities >>

\* The timer that UIController.startExperience sets is pending.
introFading == introVisible /\ gameState # "loading"

\* The setTimeout callback of UIController.startExperience, 500 ms after
\* the click: the 'intro' element is hidden.
HideIntro ==
  /\ lastCall' = Call("hideIntro", "")
  /\ introFading
  /\ introVisible' = FALSE
  /\ Commit(Enter(World))
  /\ frameLog' = << >>
  /\ UNCHANGED << isRunning, isPaused, pendingFrames, inputAttached,
                  debugEnabled, held, debugPanel, pausedTime, runningTime,
                  frameCount, budget, utilities >>

\* What Application.clock.getDelta() returns: the time since the clock was
\* last read (or started), which is the time the paused frames have let
\* pass plus the interval since the previous callback.  pause() and
\* resume() leave the clock alone.
getDelta(paused, interval) == paused + interval

\* One requestAnimationFrame callback: Application.animate, interval
\* seconds after the previous callback.  Key presses and clicks fall on the
\* instants of the callbacks, and the clock is followed for MaxDelta
\* seconds between two reads.  A callback that comes a second or more
\* after the previous one comes after the 500 ms timer of the intro.
Frame(interval) ==
  /\ lastCall' = Call("animate", "")
  /\ pendingFrames > 0
  /\ pausedTime + interval <= MaxDelta
  /\ interval > 0 => ~introFading
  /\ LET path == animatePath(isRunning, isPaused)
         deltaTime == getDelta(pausedTime, interval)
     IN /\ IF path = "stopped"
           THEN /\ pendingFrames' = pendingFrames - 1
                /\ Commit(Enter(World))
                /\ UNCHANGED << frameCount, budget, pausedTime,
                                runningTime >>
           ELSE IF path = "paused"
           THEN /\ Commit(Enter(World))
                /\ pausedTime' = pausedTime + interval
                /\ UNCHANGED << pendingFrames, frameCount, budget,
                                runningTime >>
           ELSE /\ budget.frames > 0
                /\ Commit(applicationUpdate(Enter(World), deltaTime))
                /\ pausedTime' = 0
                /\ runningTime' = runningTime + interval
                /\ frameCount' = frameCount + 1
                /\ budget' = [budget EXCEPT !.frames = @ - 1]
                /\ UNCHANGED pendingFrames
        /\ frameLog' = frameCalls(path, state', deltaTime, debugEnabled)
  /\ UNCHANGED << isRunning, isPaused, inputAttached, debugEnabled, held,
                  debugPanel, introVisible, utilities >>

\* A click on the canvas or a touch that ends on it.
Interaction(channel, hit, room) ==
  /\ lastCall' = Call("onInteraction", "")
  /\ inputAttached
  /\ HitAllowed(hit)
  /\ Commit(IF Registered(World, channel, HInteraction)
            THEN onInteraction(Enter(World), hit, room) ELSE Enter(World))
  /\ SpendClick(hit)
  /\ frameLog' = << >>
  /\ UNCHANGED << isRunning, isPaused, pendingFrames, inputAttached,
                  debugEnabled, held, debugPanel, pausedTime, runningTime,
                  frameCount, introVisible, utilities >>

\* Click on one of the choice buttons built by UIController.showChoices:
\* emit narrative:make_choice, hideChoices, then the window click.
ChoiceButton(choiceId, hit, room) ==
  /\ lastCall' = Call("choiceButton", choiceId)
  /\ choicesVisible
  /\ \E i \in 1..Len(shownChoices) : shownChoices[i] = choiceId
  /\ Len(state.choices) < MaxChoices
  /\ HitAllowed(hit)
  /\ LET w0 == Emitted(Enter(World), EvMakeChoice)
         w1 == IF Registered(w0, "narrative:make_choice", HMakeChoice)
               THEN makeChoice(w0, choiceId) ELSE w0
         w2 == [w1 EXCEPT !.choicesVisible = FALSE]
     IN Commit(windowClick(w2, hit, room))
  /\ SpendClick(hit)
  /\ frameLog' = << >>
  /\ UNCHANGED << isRunning, isPaused, pendingFrames, inputAttached,
                  debugEnabled, held, debugPanel, pausedTime, runningTime,
                  frameCount, introVisible, utilities >>

\* Space key: InteractionController.onKeyDown emits game:toggle_pause,
\* UIController.togglePause emits game:pause or game:resume.
TogglePause ==
  /\ lastCall' = Call("togglePause", "")
  /\ inputAttached
  /\ Registered(World, "game:toggle_pause", HTogglePause)
  /\ gameState \in {"playing", "paused"}
  /\ IF gameState = "playing"
     THEN /\ Commit([Enter(World) EXCEPT !.gameState = "paused"])
          /\ isPaused' = IF Registered(World, "game:pause", HPause)
                         THEN TRUE ELSE isPaused
     ELSE /\ Commit([Enter(World) EXCEPT !.gameState = "playing"])
          /\ isPaused' = IF Registered(World, "game:resume", HResume)
                         THEN FALSE ELSE isPaused
  /\ frameLog' = << >>
  /\ UNCHANGED << isRunning, pendingFrames, inputAttached, debugEnabled, held,
                  debugPanel, pausedTime, runningTime, frameCount, budget,
                  introVisible, utilities >>

\* "Show Choices" of the debug panel (development builds only).
DebugShowChoices ==
  /\ lastCall' = Call("showChoices", "")
  /\ debugPanel
  /\ budget.clicks > 0
  /\ Commit(emitRequestChoices(Enter(World)))
  /\ budget' = [budget EXCEPT !.clicks = @ - 1]
  /\ frameLog' = << >>
  /\ UNCHANGED << isRunning, isPaused, pendingFrames, inputAttached,
                  debugEnabled, held, debugPanel, pausedTime, runningTime,
                  frameCount, introVisible, utilities >>

\* Variant of Dispose that leaves isRunning as it is.
Dispose_keepsRunning ==
  /\ lastCall' = Call("dispose", "")
  /\ Commit([Enter(World) EXCEPT !.listeners = NoListeners,
                                 !.glitches = << >>])
  /\ inputAttached' = FALSE
  /\ debugPanel' = FALSE
  /\ frameLog' = << >>
  /\ UNCHANGED << isRunning, isPaused, pendingFrames, debugEnabled, held,
                  pausedTime, runningTime, frameCount, budget, introVisible,
                  utilities >>

\* Application.dispose (beforeunload).
Dispose ==
  /\ lastCall' = Call("dispose", "")
  /\ Commit([Enter(World) EXCEPT !.listeners = NoListeners,
                                 !.glitches = << >>])
  /\ isRunning' = FALSE
  /\ inputAttached' = FALSE
  /\ debugPanel' = FALSE
  /\ frameLog' = << >>
  /\ UNCHANGED << isPaused, pendingFrames, debugEnabled, held, pausedTime,
                  runningTime, frameCount, budget, introVisible, utilities >>

Next ==
  \/ \E hit \in BOOLEAN, room \in 1..MaxStack : StartExperience(hit, room)
  \/ \E interval \in 0..MaxDelta : Frame(interval)
  \/ \E channel \in {"mouse:click", "touch:end"}, hit \in BOOLEAN,
        room \in 1..MaxStack : Interaction(channel, hit, room)
  \/ \E choiceId \in CatalogIds, hit \in BOOLEAN, room \in 1..MaxStack :
        ChoiceButton(choiceId, hit, room)
  \/ TogglePause
  \/ DebugShowChoices
  \/ HideIntro
  \/ Dispose

Spec == InitApp /\ [][Next]_vars

\* ------------------------------------------- a system disposed on its own
\* this.onInteraction.bind(this) evaluated again: a new function, which is
\* not the one that setupEventListeners registered.
HInteractionBoundAnew == "GlitchSystem.onInteraction (bound in dispose)"

\* EventBus.off on the registrations of the application.
offListener(ls, channel, handler) ==
  [ls EXCEPT ![channel] = @ \ {handler}]

\* GlitchSystem.dispose.
glitchSystemDispose(w) ==
  [w EXCEPT !.glitches = << >>,
            !.listeners =
               offListener(offListener(@, "mouse:click",
                                       HInteractionBoundAnew),
                           "touch:end", HInteractionBoundAnew)]

\* glitchSystem.dispose() called on its own.
GlitchSystemDispose ==
  /\ lastCall' = Call("glitchSystem.dispose", "")
  /\ Commit(glitchSystemDispose(Enter(World)))
  /\ frameLog' = << >>
  /\ UNCHANGED << isRunning, isPaused, pendingFrames, inputAttached,
                  debugEnabled, held, debugPanel, pausedTime, runningTime,
                  frameCount, budget, introVisible, utilities >>

NextDisposal ==
  \/ GlitchSystemDispose
  \/ HideIntro
  \/ \E hit \in BOOLEAN, room \in 1..MaxStack : StartExperience(hit, room)
  \/ \E interval \in 0..MaxDelta : Frame(interval)
  \/ \E channel \in {"mouse:click", "touch:end"}, hit \in BOOLEAN,
        room \in 1..MaxStack : Interaction(channel, hit, room)

SpecDisposal == InitApp /\ [][NextDisposal]_vars

\* ------------------------------------------------ NarrativeSystem.getMessage
voidMessages ==
  << "The simulation awakens...",
     "Patterns emerge from the void...",
     "What is real?",
     "Consciousness stirs in the digital expanse..." >>

awakeningMessages ==
  << "Patterns emerge from chaos...",
     "The grid responds to your presence...",
     "Awareness grows...",
     "You are not alone in this space..." >>

transcendenceMessages ==
  << "Meaning crystallizes...",
     "The boundaries between real and simulated blur...",
     "Understanding flows through the network...",
     "You are becoming something more..." >>

endingMessage == "Fulfillment achieved. Or is it?"

\* messages[Math.floor(this.state.timeElapsed / 5) % messages.length]
cycle(messages, timeElapsed) ==
  messages[((timeElapsed \div 5) % Len(messages)) + 1]

\* Variant of getMessage whose band limits are inclusive.
getMessage_inclusive(st) ==
  IF st.fulfillment <= 600 THEN cycle(voidMessages, st.timeElapsed)
  ELSE IF st.fulfillment <= 1200
  THEN cycle(awakeningMessages, st.timeElapsed)
  ELSE IF st.fulfillment <= 1800
  THEN cycle(transcendenceMessages, st.timeElapsed)
  ELSE endingMessage

\* NarrativeSystem.getMessage (0.3, 0.6 and 0.9 are 600, 1200 and 1800).
getMessage(st) ==
  IF st.fulfillment < 600 THEN cycle(voidMessages, st.timeElapsed)
  ELSE IF st.fulfillment < 1200
  THEN cycle(awakeningMessages, st.timeElapsed)
  ELSE IF st.fulfillment < 1800
  THEN cycle(transcendenceMessages, st.timeElapsed)
  ELSE endingMessage

\* The numbers of update(1) calls after which getMessage is explored: the
\* first cycles of the list and the frames around each band limit.
MessageFrames ==
  (0..24) \cup (590..610) \cup (1190..1210) \cup (1790..1810) \cup {2000}

InitMessage ==
  \E k \in MessageFrames :
    /\ Initially(updates(Constructed(NoListeners), k))
    /\ frameCount = k
    /\ lastCall = (IF k = 0 THEN NoCall ELSE Call("update", ""))
    /\ isRunning = FALSE
    /\ isPaused = FALSE
    /\ pendingFrames = 0
    /\ inputAttached = FALSE
    /\ debugEnabled = FALSE
    /\ debugPanel = FALSE
    /\ pausedTime = 0
    /\ held = << >>
    /\ runningTime = 0
    /\ frameLog = << >>
    /\ budget = FullBudget
    /\ introVisible = FALSE
    /\ NoUtilities

\* narrative.getMessage()
GetMessage ==
  /\ lastCall' = Call("getMessage", "")
  /\ message' = getMessage(state)
  /\ Commit(World)
  /\ UNCHANGED << frameCount, budget, bus, subscriptions, busCall, pool,
                  poolCall, isRunning, isPaused, pendingFrames,
                  inputAttached, debugEnabled, debugPanel, pausedTime, held,
                  runningTime, frameLog, introVisible >>

NextMessage ==
  \/ GetMessage
  \/ \E choiceId \in CatalogIds : MakeChoice(choiceId)

SpecMessage == InitMessage /\ [][NextMessage]_vars

\* --------------------------------------------------------------- EventBus
\* EventBus.listeners is a Map from event to the Set of its callbacks; a
\* Set is kept in its insertion order, which is the order of forEach.
BusEvents == {"game:start", "game:pause"}

\* The callbacks given to the bus: two that count their calls, as the
\* callbacks of the unit tests do, and one that throws, as the handler of
\* narrative:glitch_discovered does when the stack is exhausted.
Callbacks == {"count1", "count2", "throws"}
Throws(callback) == callback = "throws"

\* The payloads given to emit.
BusData == {0, 1}

has(ls, event) == event \in DOMAIN ls

set(ls, event, callbacks) ==
  [e \in DOMAIN ls \cup {event} |-> IF e = event THEN callbacks ELSE ls[e]]

\* Set.add
add(callbacks, callback) ==
  IF \E i \in 1..Len(callbacks) : callbacks[i] = callback THEN callbacks
  ELSE Append(callbacks, callback)

\* Variant of on that keeps the callbacks in an array (push) instead of a
\* Set.
on_push(ls, event, callback) ==
  LET ls1 == IF has(ls, event) THEN ls ELSE set(ls, event, << >>)
  IN set(ls1, event, Append(ls1[event], callback))

\* EventBus.on.
on(ls, event, callback) ==
  LET ls1 == IF has(ls, event) THEN ls ELSE set(ls, event, << >>)
  IN set(ls1, event, add(ls1[event], callback))

\* EventBus.off.
off(ls, event, callback) ==
  LET Other(cb) == cb # callback
  IN IF ~has(ls, event) THEN ls
     ELSE set(ls, event, SelectSeq(ls[event], Other))

\* The calls that EventBus.emit makes: forEach goes through the Set in
\* order and is ended by the first callback that throws.
emit(ls, event, data) ==
  IF ~has(ls, event) THEN << >>
  ELSE LET callbacks == ls[event]
           thrower(i) == Throws(callbacks[i])
           last == IF \E i \in 1..Len(callbacks) : thrower(i)
                   THEN CHOOSE i \in 1..Len(callbacks) :
                          /\ thrower(i)
                          /\ \A j \in 1..(i - 1) : ~thrower(j)
                   ELSE Len(callbacks)
       IN [i \in 1..last |-> [callback |-> callbacks[i], data |-> data]]

\* EventBus.clear.
clear(ls) == EmptyMap

\* EventBus.getListenerCount.
getListenerCount(ls, event) == IF has(ls, event) THEN Len(ls[event]) ELSE 0

BusCall(op, event, callback, data, invoked) ==
  [op |-> op, event |-> event, callback |-> callback, data |-> data,
   invoked |-> invoked,
   threw |-> \E i \in 1..Len(invoked) : Throws(invoked[i].callback)]

BusUnchanged ==
  UNCHANGED << state, currentZone, emitted, lastEnding, listeners,
               gameState, shownChoices, choicesVisible, threw, glitches,
               frameCount, lastCall, budget, pool, poolCall, message,
               isRunning, isPaused, pendingFrames, inputAttached,
               debugEnabled, debugPanel, pausedTime, held, runningTime,
               frameLog, introVisible >>

InitBus ==
  /\ Initially(Constructed(NoListeners))
  /\ frameCount = 0
  /\ lastCall = NoCall
  /\ isRunning = FALSE
  /\ isPaused = FALSE
  /\ pendingFrames = 0
  /\ inputAttached = FALSE
  /\ debugEnabled = FALSE
  /\ debugPanel = FALSE
  /\ pausedTime = 0
  /\ held = << >>
  /\ runningTime = 0
  /\ frameLog = << >>
  /\ budget = FullBudget
  /\ introVisible = FALSE
  /\ NoUtilities

\* EventBus.on(event, callback); the caller keeps the function returned.
On(event, callback) ==
  /\ busCall' = BusCall("on", event, callback, 0, << >>)
  /\ bus' = on(bus, event, callback)
  /\ subscriptions' = subscriptions \cup {<< event, callback >>}
  /\ BusUnchanged

\* EventBus.off(event, callback)
Off(event, callback) ==
  /\ busCall' = BusCall("off", event, callback, 0, << >>)
  /\ bus' = off(bus, event, callback)
  /\ UNCHANGED subscriptions
  /\ BusUnchanged

\* A call of a function that on(event, callback) returned.
Unsubscribe(event, callback) ==
  /\ << event, callback >> \in subscriptions
  /\ busCall' = BusCall("unsubscribe", event, callback, 0, << >>)
  /\ bus' = off(bus, event, callback)
  /\ UNCHANGED subscriptions
  /\ BusUnchanged

\* EventBus.emit(event, data)
Emit(event, data) ==
  /\ busCall' = BusCall("emit", event, "", data, emit(bus, event, data))
  /\ UNCHANGED << bus, subscriptions >>
  /\ BusUnchanged

\* EventBus.clear()
Clear ==
  /\ busCall' = BusCall("clear", "", "", 0, << >>)
  /\ bus' = clear(bus)
  /\ UNCHANGED subscriptions
  /\ BusUnchanged

NextBus ==
  \/ \E event \in BusEvents, callback \in Callbacks : On(event, callback)
  \/ \E event \in BusEvents, callback \in Callbacks : Off(event, callback)
  \/ \E event \in BusEvents, callback \in Callbacks :
       Unsubscribe(event, callback)
  \/ \E event \in BusEvents, data \in BusData : Emit(event, data)
  \/ Clear

SpecBus == InitBus /\ [][NextBus]_vars

\* ------------------------------------------------------------- ObjectPool
\* The objects are numbered in the order in which factory() made them; 0 is
\* an object that the pool did not make.  available is the array, inUse
\* the Set in its insertion order; initialSize keeps the argument of the
\* constructor.
Range(seq) == {seq[i] : i \in 1..Len(seq)}

Without(seq, obj) ==
  LET Other(x) == x # obj IN SelectSeq(seq, Other)

\* new ObjectPool(factory, reset, initialSize)
construct(initialSize) ==
  [available |-> [i \in 1..initialSize |-> i], inUse |-> << >>,
   created |-> initialSize, initialSize |-> initialSize]

\* The object that ObjectPool.acquire returns.
acquired(p) ==
  IF Len(p.available) > 0 THEN p.available[Len(p.available)]
  ELSE p.created + 1

\* ObjectPool.acquire.
acquire(p) ==
  LET obj == acquired(p)
      popped == IF Len(p.available) > 0
                THEN [p EXCEPT !.available = SubSeq(@, 1, Len(@) - 1)]
                ELSE [p EXCEPT !.created = @ + 1]
  IN [popped EXCEPT !.inUse = IF obj \in Range(@) THEN @
                              ELSE Append(@, obj)]

\* Variant of release without the inUse.has(obj) test.
release_unchecked(p, obj) ==
  [p EXCEPT !.inUse = Without(@, obj), !.available = Append(@, obj)]

\* ObjectPool.release.
release(p, obj) ==
  IF obj \in Range(p.inUse)
  THEN [p EXCEPT !.inUse = Without(@, obj), !.available = Append(@, obj)]
  ELSE p

\* ObjectPool.releaseAll.
releaseAll(p) ==
  [p EXCEPT !.available = @ \o p.inUse, !.inUse = << >>]

\* ObjectPool.getStats.
getStats(p) ==
  [available |-> Len(p.available), inUse |-> Len(p.inUse),
   total |-> Len(p.available) + Len(p.inUse)]

\* The initial sizes of the pools of the unit tests, and the empty pool.
InitialSizes == {0, 1, 2, 5}

PoolCall(op, object) ==
  [op |-> op, object |-> object, count |-> poolCall.count + 1]

PoolUnchanged ==
  UNCHANGED << state, currentZone, emitted, lastEnding, listeners,
               gameState, shownChoices, choicesVisible, threw, glitches,
               frameCount, lastCall, budget, bus, subscriptions, busCall,
               message, isRunning, isPaused, pendingFrames, inputAttached,
               debugEnabled, debugPanel, pausedTime, held, runningTime,
               frameLog, introVisible >>

InitPool ==
  \E initialSize \in InitialSizes :
    /\ Initially(Constructed(NoListeners))
    /\ frameCount = 0
    /\ lastCall = NoCall
    /\ isRunning = FALSE
    /\ isPaused = FALSE
    /\ pendingFrames = 0
    /\ inputAttached = FALSE
    /\ debugEnabled = FALSE
    /\ debugPanel = FALSE
    /\ pausedTime = 0
    /\ held = << >>
    /\ runningTime = 0
    /\ frameLog = << >>
    /\ budget = FullBudget
    /\ introVisible = FALSE
    /\ bus = EmptyMap
    /\ subscriptions = {}
    /\ busCall = NoBusCall
    /\ message = NoMessage
    /\ pool = construct(initialSize)
    /\ poolCall = NoPoolCall

\* pool.acquire()
Acquire ==
  /\ poolCall.count < MaxPoolCalls
  /\ poolCall' = PoolCall("acquire", acquired(pool))
  /\ pool' = acquire(pool)
  /\ PoolUnchanged

\* pool.release(obj)
Release(obj) ==
  /\ poolCall.count < MaxPoolCalls
  /\ poolCall' = PoolCall("release", obj)
  /\ pool' = release(pool, obj)
  /\ PoolUnchanged

\* pool.releaseAll()
ReleaseAll ==
  /\ poolCall.count < MaxPoolCalls
  /\ poolCall' = PoolCall("releaseAll", 0)
  /\ pool' = releaseAll(pool)
  /\ PoolUnchanged

NextPool ==
  \/ Acquire
  \/ \E obj \in 0..pool.created : Release(obj)
  \/ ReleaseAll

SpecPool == InitPool /\ [][NextPool]_vars

\* ================================================================ claims
ZoneRank(zone) ==
  IF zone = VOID THEN 0 ELSE IF zone = AWAKENING THEN 1 ELSE 2

Clamp01(x) == IF x < 0 THEN 0 ELSE IF x > ONE THEN ONE ELSE x

Ids(choices) == [i \in 1..Len(choices) |-> choices[i].id]

\* C1: in the assembled application every interaction that hits the scene
\* results in exactly one onGlitchDiscovered(): discoveredGlitches grows by
\* exactly 1, consciousness by 0.05, and the dispatch of glitch_discovered
\* ends without an error.
C1_OneDiscoveryPerHit ==
  [][(/\ emitted'[EvGlitch] > emitted[EvGlitch]
      /\ state'.choices = state.choices
      /\ frameCount' = frameCount)
     => (/\ state'.discoveredGlitches = state.discoveredGlitches + 1
         /\ state'.consciousness = state.consciousness + glitchConsciousness
         /\ ~threw')]_vars

\* C2: the ending event is emitted exactly once: after it was emitted, no
\* later step of the run emits it again.
C2_EndingEmittedOnce ==
  [][emitted[EvEnding] >= 1 => emitted'[EvEnding] = emitted[EvEnding]]_vars

\* C3: after any sequence of update, makeChoice and onGlitchDiscovered
\* calls, consciousness and fulfillment are both within [0,1].
C3_AccumulatorsInRange ==
  /\ state.consciousness >= 0 /\ state.consciousness <= ONE
  /\ state.fulfillment >= 0 /\ state.fulfillment <= ONE

\* C4: once an ending has been resolved, PlayerState is frozen: no later
\* frame, choice or glitch discovery changes any of its fields.
C4_FrozenAfterEnding ==
  [][emitted[EvEnding] >= 1 => state' = state]_vars

\* C5: makeChoice with an id that is not in the catalog leaves PlayerState
\* and the cached zone unchanged, appends nothing to the choice history and
\* emits no event.
C5_UnknownChoiceIgnored ==
  [][(lastCall'.op = "makeChoice" /\ lastCall'.arg \notin CatalogIds)
     => (/\ state' = state
         /\ currentZone' = currentZone
         /\ emitted' = emitted
         /\ lastEnding' = lastEnding)]_vars

\* C5 witness: an unknown id was passed to makeChoice after a real choice
\* had been recorded.
C5_Witness ==
  /\ lastCall = Call("makeChoice", UnknownId)
  /\ Len(state.choices) = 1

\* C6: a zone_change event for a given zone is emitted at most once in a
\* run (and none is ever emitted for VOID).
C6_ZoneChangeAtMostOnce ==
  /\ emitted[EvZoneAwakening] <= 1
  /\ emitted[EvZoneTranscendence] <= 1
  /\ emitted[EvZoneVoid] = 0

\* C6 witness: both transitions were emitted and update ran again after
\* the second one.
C6_Witness ==
  /\ emitted[EvZoneAwakening] = 1
  /\ emitted[EvZoneTranscendence] = 1
  /\ lastCall.op = "update"
  /\ state.fulfillment > transcendenceThreshold

\* C7: currentZone never moves to a lower zone, also when a choice takes
\* fulfillment back below the threshold of the current zone.
C7_ZoneNeverDecreases ==
  [][/\ ZoneRank(currentZone') >= ZoneRank(currentZone)
     /\ state'.currentZone = currentZone']_vars

\* C7 witness: update ran in AWAKENING with fulfillment below the
\* AWAKENING threshold (a negative delta was applied after the crossing).
C7_Witness ==
  /\ currentZone = AWAKENING
  /\ state.fulfillment < awakeningThreshold
  /\ lastCall.op = "update"
  /\ state.choices # << >>

\* C8: from the all-zero state and with no other mutation, after N calls of
\* onGlitchDiscovered() discoveredGlitches = N and
\* consciousness = min(1, 0.05*N).
C8_GlitchesFromZero ==
  (frameCount = 0 /\ state.choices = << >>)
    => state.consciousness =
         Min(ONE, glitchConsciousness * state.discoveredGlitches)

\* C9: makeChoice with a catalog id yields consciousness and fulfillment
\* clamped to [0,1] after the deltas, appends exactly that id to the choice
\* history and emits exactly one choice_made event.
C9_ChoiceApplied ==
  [][(lastCall'.op = "makeChoice" /\ lastCall'.arg \in CatalogIds)
     => LET choice == availableChoices[find(lastCall'.arg)]
        IN /\ state'.consciousness =
                Clamp01(state.consciousness + choice.consciousness)
           /\ state'.fulfillment =
                Clamp01(state.fulfillment + choice.fulfillment)
           /\ state'.choices = Append(state.choices, lastCall'.arg)
           /\ emitted'[EvChoiceMade] = emitted[EvChoiceMade] + 1]_vars

\* C10: every zone change into AWAKENING or TRANSCENDENCE emits, in the same
\* frame, exactly one request_choices, and the choices shown are the
\* offering of the zone entered; a run that reaches AWAKENING by frames
\* alone has exactly one zone_change(AWAKENING) and one request_choices.
C10_ZoneChangeRequestsChoices ==
  /\ [][currentZone' # currentZone
        => (/\ emitted'[EvRequestChoices] = emitted[EvRequestChoices] + 1
            /\ shownChoices' = Ids(getAvailableChoices(currentZone')))]_vars
  /\ [](( /\ currentZone = AWAKENING
          /\ state.choices = << >>
          /\ state.discoveredGlitches = 0
          /\ ~debugEnabled)
        => (emitted[EvZoneAwakening] = 1 /\ emitted[EvRequestChoices] = 1))

\* C10 witness: AWAKENING was entered by frames alone, in that frame, and
\* the two choices of its offering are shown and visible.
C10_Witness ==
  /\ emitted[EvZoneAwakening] = 1
  /\ emitted[EvRequestChoices] = 1
  /\ shownChoices = << "reject_simulation", "transcend" >>
  /\ choicesVisible
  /\ lastCall.op = "animate"
  /\ state.fulfillment = awakeningThreshold

\* The ending the specification prescribes for a PlayerState: the implied
\* ending of the last recorded choice; with no recorded choice,
\* transcendence when both accumulators exceed 0.8, else rebellion, else
\* acceptance, else dissolution.
ExpectedEnding(st) ==
  IF st.choices # << >>
  THEN LET last == st.choices[Len(st.choices)]
       IN CASE last = "accept_reality" -> "acceptance"
            [] last = "reject_simulation" -> "rebellion"
            [] last = "transcend" -> "transcendence"
            [] last = "dissolve" -> "dissolution"
  ELSE IF st.consciousness > 1600 /\ st.fulfillment > 1600
       THEN "transcendence"
  ELSE IF st.consciousness > 1600 /\ st.fulfillment < 1000
       THEN "rebellion"
  ELSE IF st.fulfillment > 1600 /\ st.consciousness < 1000
       THEN "acceptance"
  ELSE "dissolution"

classify(fulfillment) ==
  IF fulfillment >= transcendenceThreshold THEN TRANSCENDENCE
  ELSE IF fulfillment >= awakeningThreshold THEN AWAKENING
  ELSE VOID

\* C12 as stated: after every update the cached zone equals the zone that
\* classifies the current fulfillment, choices included.
C12_ZoneEqualsClassify ==
  lastCall.op = "update" => currentZone = classify(state.fulfillment)

\* C12: after every update the cached zone is never lower than the zone
\* that classifies the current fulfillment, and it equals that zone as long
\* as no choice with a negative fulfillment delta has been recorded.
C12_ZoneAtLeastClassify ==
  lastCall.op = "update"
    => /\ ZoneRank(currentZone) >= ZoneRank(classify(state.fulfillment))
       /\ (\A i \in 1..Len(state.choices) :
              state.choices[i] # "reject_simulation")
            => currentZone = classify(state.fulfillment)

\* C12 witness: update ran in TRANSCENDENCE with fulfillment back in the
\* AWAKENING band after reject_simulation.
C12_Witness ==
  /\ lastCall.op = "update"
  /\ currentZone = TRANSCENDENCE
  /\ classify(state.fulfillment) = AWAKENING

\* C13: in a run that consists of update calls only, from the all-zero
\* state, consciousness and fulfillment are within [0,1] after every call,
\* however long the run is.
C13_FramesOnlyInRange ==
  (state.choices = << >> /\ state.discoveredGlitches = 0)
    => /\ 0 <= state.consciousness /\ state.consciousness <= ONE
       /\ 0 <= state.fulfillment /\ state.fulfillment <= ONE

\* C13 witness: update ran after both accumulators had reached 1.
C13_Witness ==
  /\ lastCall.op = "update"
  /\ frameCount > ONE
  /\ state.choices = << >> /\ state.discoveredGlitches = 0
  /\ state.consciousness = ONE
  /\ state.fulfillment = ONE

\* The ids the specification offers in a zone, in catalog order.
OfferedIn(zone) ==
  CASE zone = VOID -> << "accept_reality", "reject_simulation" >>
    [] zone = AWAKENING -> << "reject_simulation", "transcend" >>
    [] zone = TRANSCENDENCE ->
         << "accept_reality", "reject_simulation", "transcend", "dissolve" >>

\* C14: whenever choices are requested, the choices shown are the slice of
\* the catalog [accept_reality, reject_simulation, transcend, dissolve]
\* that the current zone alone selects: entries 0 and 1 in VOID, 1 and 2 in
\* AWAKENING, all four in TRANSCENDENCE.
C14_OfferByZone ==
  [][emitted'[EvRequestChoices] > emitted[EvRequestChoices]
     => shownChoices' = OfferedIn(currentZone')]_vars

\* C14 witness: the choices of VOID were requested just below the
\* AWAKENING threshold, and the first two catalog entries are shown.
C14_Witness ==
  /\ lastCall.op = "showChoices"
  /\ currentZone = VOID
  /\ state.fulfillment = awakeningThreshold - 1
  /\ shownChoices = << "accept_reality", "reject_simulation" >>
  /\ choicesVisible

\* The number of calls of a given name in a frame's log.
CallCount(log, call) ==
  Cardinality({i \in 1..Len(log) : log[i].call = call})

\* The position of the first call of a given name in a frame's log.
CallAt(log, call) ==
  CHOOSE i \in 1..Len(log) :
    /\ log[i].call = call
    /\ \A j \in 1..(i - 1) : log[j].call # call

UpdateCalls ==
  {"narrativeSystem.update", "gridSystem.update", "orbSystem.update",
   "particleSystem.update", "interactionController.update",
   "glitchSystem.update"}

\* C15: a frame callback that finds the application paused makes exactly
\* one render call and no update of the narrative system, the grid, the
\* orbs, the particles, the interaction controller or the glitches, and it
\* does not read the clock; PlayerState (consciousness, fulfillment,
\* timeElapsed) and the glitch effects are the same before and after.
C15_PausedFrameRendersOnly ==
  [][(lastCall'.op = "animate" /\ isRunning /\ isPaused)
     => (/\ CallCount(frameLog', "sceneManager.render") = 1
         /\ \A i \in 1..Len(frameLog') :
              frameLog'[i].call
                \notin UpdateCalls \cup {"clock.getDelta",
                                         "clock.getElapsedTime"}
         /\ state' = state
         /\ glitches' = glitches
         /\ frameCount' = frameCount)]_vars

\* C15 witness: a paused frame callback has run, one second after the
\* previous callback, while a glitch effect was fading.
C15_Witness ==
  /\ lastCall.op = "animate"
  /\ isRunning /\ isPaused
  /\ pausedTime = 1
  /\ glitches # << >>
  /\ CallCount(frameLog, "sceneManager.render") = 1

\* C16: time that passes while the application is paused is never counted:
\* a running frame advances timeElapsed, and the elapsed time of every
\* glitch effect, by the time that passed unpaused only, so that a pause
\* leaves the remaining lifetime of a glitch as it was.
C16_PausedTimeNotCounted ==
  [][(lastCall'.op = "animate" /\ frameCount' = frameCount + 1)
     => LET ran == runningTime' - runningTime
        IN /\ state'.timeElapsed = state.timeElapsed + ran
           /\ glitches' = glitchUpdate(glitches, ran)]_vars

\* dispose() has run: InteractionController.dispose has detached the DOM
\* listeners, and nothing attaches them again.
Disposed == ~inputAttached

\* C17: after dispose() a frame callback makes no call at all (no update,
\* no render, no requestAnimationFrame) and changes nothing, no step
\* schedules a callback, the bus has no listener for any event, and a
\* second dispose() leaves the state as it is.
C17_NothingAfterDispose ==
  /\ [](Disposed => (~isRunning /\ \A ch \in Channels : listeners[ch] = {}))
  /\ [][Disposed
        => (/\ pendingFrames' <= pendingFrames
            /\ state' = state
            /\ frameCount' = frameCount
            /\ frameLog' = << >>
            /\ (lastCall'.op = "dispose"
                  => UNCHANGED << state, currentZone, emitted, lastEnding,
                                  listeners, gameState, shownChoices,
                                  choicesVisible, isRunning, isPaused,
                                  pendingFrames, inputAttached, glitches,
                                  debugPanel, pausedTime, runningTime,
                                  frameCount >>))]_vars

\* C17 witness: the callback that was scheduled before dispose() has run
\* after it, on an application that had been running, and none is left.
C17_Witness ==
  /\ Disposed
  /\ lastCall.op = "animate"
  /\ frameCount > 0
  /\ pendingFrames = 0
  /\ frameLog = << >>

C19_SnapshotsAreCopies ==
  [][/\ (emitted[EvEnding] >= 1 /\ emitted'[EvEnding] = emitted[EvEnding])
          => endingEventState(World)' = endingEventState(World)
     /\ (held # << >> /\ held' = held)
          => Read(held[1], state)' = Read(held[1], state)]_vars

\* C20: update(deltaTime) raises each accumulator by its per-second rate
\* times deltaTime before the clamp, so that the values after a run depend
\* on the simulated time and not on the number of update calls.
C20_GrowthByElapsedTime ==
  [][lastCall'.op = "update"
     => LET deltaTime == state'.timeElapsed - state.timeElapsed
        IN /\ state'.consciousness
                = Min(ONE, state.consciousness
                           + consciousnessSpeed * deltaTime)
           /\ state'.fulfillment
                = Min(ONE, state.fulfillment
                           + fulfillmentSpeed * deltaTime)]_vars

\* C21: consciousness and fulfillment never decrease across an update or
\* an onGlitchDiscovered call, from any reachable state, and
\* discoveredGlitches and timeElapsed never decrease under any operation.
C21_NoDecreaseButByChoice ==
  [][/\ (lastCall'.op \in {"update", "onGlitchDiscovered"})
          => /\ state'.consciousness >= state.consciousness
             /\ state'.fulfillment >= state.fulfillment
     /\ state'.discoveredGlitches >= state.discoveredGlitches
     /\ state'.timeElapsed >= state.timeElapsed]_vars

\* The ending event carries the given ending.
EndingEmitted(ending) == emitted[EvEnding] >= 1 /\ lastEnding = ending

\* C22: each of the four endings is reachable: once the player has made
\* the choice that names an ending, the frames that follow lead to an
\* ending event that carries that ending, for acceptance, rebellion,
\* transcendence and dissolution alike.
C22_EveryEndingReached ==
  \A choiceId \in CatalogIds :
    (state.choices = << choiceId >>)
      ~> EndingEmitted(availableChoices[find(choiceId)].ending)

C22_Witness ==
  /\ state.choices = << "accept_reality" >>
  /\ EndingEmitted("acceptance")
  /\ lastCall.op = "update"

\* C28: in every run the zone_change events form a prefix of the sequence
\* [AWAKENING, TRANSCENDENCE]: TRANSCENDENCE is announced only after
\* AWAKENING has been, never directly from VOID, also when choices between
\* two updates raise fulfillment from below 0.33 to 0.66 or more.
C28_ZoneChangesArePrefix ==
  emitted[EvZoneTranscendence] >= 1 => emitted[EvZoneAwakening] >= 1

\* C28 (amended): the zone_change events come in increasing zone order,
\* AWAKENING only out of VOID and before any TRANSCENDENCE; an update that
\* finds the zone VOID and fulfillment at 0.66 or more enters TRANSCENDENCE
\* directly and AWAKENING is not announced.
C28_ZoneChangesAscend ==
  /\ [][emitted'[EvZoneAwakening] > emitted[EvZoneAwakening]
        => (currentZone = VOID /\ emitted[EvZoneTranscendence] = 0)]_vars
  /\ [][( /\ lastCall'.op = "update"
          /\ currentZone = VOID
          /\ state'.fulfillment >= transcendenceThreshold)
        => (/\ currentZone' = TRANSCENDENCE
            /\ emitted'[EvZoneTranscendence] = 1
            /\ emitted'[EvZoneAwakening] = 0)]_vars

\* C28 witness: two choices made in VOID took fulfillment past 0.66 and the
\* next update announced TRANSCENDENCE with AWAKENING never announced.
C28_Witness ==
  /\ currentZone = TRANSCENDENCE
  /\ emitted[EvZoneTranscendence] = 1
  /\ emitted[EvZoneAwakening] = 0
  /\ Len(state.choices) = 2
  /\ lastCall.op = "update"

\* The step emits the first ending event of the run.
FirstEnding == emitted[EvEnding] = 0 /\ emitted'[EvEnding] >= 1

\* C29: with the default rates and no choice ever recorded, the first
\* ending event carries rebellion or dissolution, never acceptance or
\* transcendence, whatever number of glitches is discovered and whenever;
\* with no glitch either, it is dissolution and it fires on the 1000th
\* update.
C29_FirstEndingWithoutChoice ==
  /\ [][FirstEnding
        => (/\ lastEnding' \in {"rebellion", "dissolution"}
            /\ lastCall'.op = "update"
            /\ state.discoveredGlitches = 0
                 => (lastEnding' = "dissolution" /\ frameCount' = 1000))]_vars
  /\ [](state.discoveredGlitches = 0
          => (emitted[EvEnding] >= 1 <=> frameCount >= 1000))

\* C29 witness: seven or more glitches found before the 1000th update
\* brought consciousness to 1 with fulfillment below 0.5, and the ending
\* event of that update is the first one.
C29_Witness ==
  /\ emitted[EvEnding] = 1
  /\ lastEnding = "rebellion"
  /\ state.discoveredGlitches >= 7
  /\ frameCount < 1000
  /\ state.choices = << >>

\* C30: at most one frame callback is pending at any time: a game:start
\* delivered while the application is already running (also while paused)
\* starts no second scheduling loop and runs no update, so every display
\* frame causes at most one NarrativeSystem.update and one render.
C30_OnePendingFrame ==
  /\ [](pendingFrames <= 1)
  /\ [][(lastCall'.op = "startExperience" /\ isRunning)
        => (/\ pendingFrames' = pendingFrames
            /\ frameCount' = frameCount
            /\ frameLog' = << >>
            /\ isPaused' = isPaused)]_vars
  /\ [][lastCall'.op = "animate"
        => (/\ CallCount(frameLog', "narrativeSystem.update") <= 1
            /\ CallCount(frameLog', "sceneManager.render") <= 1
            /\ CallCount(frameLog', "requestAnimationFrame") <= 1)]_vars

\* C30 witness: the enter button was clicked a second time while the
\* application was running and paused, and one callback is pending.
C30_Witness ==
  /\ lastCall.op = "startExperience"
  /\ isRunning
  /\ isPaused
  /\ frameCount >= 1
  /\ frameLog = << >>
  /\ pendingFrames = 1

\* The band of a fulfillment value: 1 below 0.3, 2 below 0.6, 3 below 0.9,
\* 4 from 0.9 on.
Band(fulfillment) ==
  IF fulfillment < (3 * ONE) \div 10 THEN 1
  ELSE IF fulfillment < (6 * ONE) \div 10 THEN 2
  ELSE IF fulfillment < (9 * ONE) \div 10 THEN 3
  ELSE 4

\* The fixed list of each of the first three bands.
BandList(band) ==
  CASE band = 1 -> voidMessages
    [] band = 2 -> awakeningMessages
    [] band = 3 -> transcendenceMessages

\* Entry floor(timeElapsed / 5) mod 4 of the band's list, counted from 0.
Entry(band, timeElapsed) ==
  LET floor5 == CHOOSE q \in 0..timeElapsed :
                  5 * q <= timeElapsed /\ timeElapsed < 5 * (q + 1)
      i == CHOOSE r \in 0..3 : \E n \in 0..floor5 : floor5 = 4 * n + r
  IN BandList(band)[i + 1]

\* Fulfillment values of every band, at and next to each band limit.
BandSamples ==
  {0 - 200, 0, 599, 600, 601, 1199, 1200, 1201, 1799, 1800, 1801, ONE,
   ONE + 600}

\* C27: the message depends only on fulfillment and timeElapsed: the band
\* is chosen by fulfillment < 0.3, < 0.6, < 0.9, else final; in the first
\* three bands the string is entry floor(timeElapsed / 5) mod 4 of the
\* band's list, the final band always gives the same string, and for one
\* timeElapsed two fulfillment values of different bands never give the
\* same string.
C27_MessageByBandAndTime ==
  lastCall.op = "getMessage"
    => LET band == Band(state.fulfillment)
       IN /\ band < 4 => message = Entry(band, state.timeElapsed)
          /\ band = 4 => message = endingMessage
          /\ message = getMessage([InitialState EXCEPT
                                     !.fulfillment = state.fulfillment,
                                     !.timeElapsed = state.timeElapsed])
          /\ \A other \in BandSamples :
               Band(other) # band
                 => getMessage([state EXCEPT !.fulfillment = other])
                      # message

\* C27 witness: a choice made after 605 seconds took fulfillment from the
\* second band into the third, and the third band's list is read at its
\* second entry.
C27_Witness ==
  /\ lastCall.op = "getMessage"
  /\ Len(state.choices) = 1
  /\ state.fulfillment >= 1200
  /\ state.timeElapsed = 605
  /\ message = transcendenceMessages[2]

\* C24: a system's own dispose() removes the listeners that the system
\* registered: after GlitchSystem.dispose() its handlers for mouse:click
\* and touch:end are no longer registered and the listener counts are back
\* to their value before construction (none), so that a later emit does
\* not reach the disposed system.
C24_DisposeRemovesOwnListeners ==
  [][lastCall'.op = "glitchSystem.dispose"
     => \A channel \in {"mouse:click", "touch:end"} :
          /\ ~Registered([listeners |-> listeners'], channel, HInteraction)
          /\ listeners'[channel] = {}]_vars

\* The callbacks registered for an event.
RegisteredFor(ls, event) ==
  IF has(ls, event) THEN Range(ls[event]) ELSE {}

\* How many times a call of emit invoked the callback with the data.
Invocations(invoked, callback, data) ==
  Cardinality({i \in 1..Len(invoked) :
                 invoked[i] = [callback |-> callback, data |-> data]})

\* off, the function returned by on, and clear remove; only on adds.
C23_Removal ==
  /\ [][busCall'.op \in {"off", "unsubscribe"}
        => busCall'.callback
             \notin RegisteredFor(bus', busCall'.event)]_vars
  /\ [][\A event \in BusEvents, callback \in Callbacks :
          (/\ callback \in RegisteredFor(bus', event)
           /\ callback \notin RegisteredFor(bus, event))
            => (/\ busCall'.op = "on"
                /\ busCall'.event = event
                /\ busCall'.callback = callback)]_vars
  /\ [][(busCall'.op = "emit" /\ RegisteredFor(bus, busCall'.event) = {})
        => (busCall'.invoked = << >> /\ bus' = bus)]_vars

Total(p) == Len(p.available) + Len(p.inUse)

\* C25: after releaseAll(), inUse is 0 and available equals the initial
\* pool size plus the number of objects that were in use, acquired before
\* the call (initial size 5 and 3 acquired gives available 8).
C25_ReleaseAllAddsAcquired ==
  [][poolCall'.op = "releaseAll"
     => (/\ getStats(pool').inUse = 0
         /\ getStats(pool').available
              = pool.initialSize + getStats(pool).inUse)]_vars

====
